---- MODULE Spec2Model ----
(***************************************************************************)
(* A model of piper-tts-server: the engine cache of TtsService             *)
(* (tts/mod.rs), the voice loader (tts/voice.rs) and the DSL compiler      *)
(* (dsl/parser.rs, dsl/transforms.rs).                                     *)
(*                                                                         *)
(* Spec     : request threads calling TtsService::get_engine concurrently. *)
(* DslSpec  : dsl::process run on bounded input texts.                     *)
(***************************************************************************)
EXTENDS Integers, Sequences, FiniteSets, TLC

\* ------------------------------------------------------------------------
\* Bounds of the model
\* ------------------------------------------------------------------------
NProc == 3

Procs == 1..NProc
\* The voice identifiers requested (voice_id strings).
Voices == {"en_GB-alba-medium", "en_US-amy-low"}

VARIABLES
    \* ---- TtsService (tts/mod.rs) ----
    engines,        \* the HashMap<String, Arc<PiperEngine>>: a function on the cached voice ids
    readers,        \* threads holding the RwLock's read guard
    writer,         \* thread holding the RwLock's write guard, 0 when none
    pc,             \* each request thread's position in get_engine
    arg,            \* each thread's voice_id argument
    voice,          \* each thread's local `voice` (<<>> before Voice::load)
    engine,         \* each thread's local `engine` (<<>> before PiperEngine::new)
    seen,           \* each thread's result of engines.get(voice_id): <<>> or <<e>>
    ret,            \* what the call returned: <<>>, <<"Ok", e>> or <<"Err", kind>>
    \* ---- history of the cache, read by the properties only ----
    raced,          \* per voice, whether two calls were on the miss path at once
    atStart,        \* per thread, engines.get(voice_id) at the moment the call started
    \* ---- dsl::process ----
    dpc,            \* position in process: "input", "transform", "done"
    input,          \* the input text, a sequence of characters
    tokens,         \* the tokens parse returned
    tix,            \* transform: index of the next token
    state,          \* transform: TransformState
    output,         \* transform: output
    \* ---- tts/piper.rs: phonemes_to_ids and samples_to_wav ----
    tpc,            \* position of the call of the function: "idle", "call", "done"
    phonemes,       \* the phoneme string, a sequence of characters
    id_map,         \* the voice's phoneme_id_map: a function on the mapped characters
    ids,            \* the ids phonemes_to_ids returned
    samples,        \* the f32 samples, each a fraction [num, den]
    wav,            \* what samples_to_wav wrote: <<>> or <<the WAV file>>
    \* ---- TtsService::speak ----
    spc,            \* position of the request in speak
    trace,          \* the steps speak has executed, in order
    outcome,        \* what speak returned: <<>>, <<"Ok">> or <<"Err", step>>
    \* ---- api/handlers.rs: speak ----
    req,            \* the request: <<>> or <<[text, voice]>>
    resp,           \* the handler's result: <<>>, <<"Ok">> or <<"Err", kind>>
    \* ---- tts/voice.rs: Voice::load, tts/mod.rs: parse_voice_name ----
    disk,           \* what the voices directory holds for the voice: <<>> or <<files>>
    loaded,         \* what Voice::load returned: <<>> or its result
    vid,            \* the voice id given to parse_voice_name
    vname           \* what parse_voice_name returned: <<>> or <<name>>

cacheVars == <<engines, readers, writer, pc, arg, voice, engine, seen, ret, raced, atStart>>
dslVars == <<dpc, input, tokens, tix, state, output>>
ttsVars == <<tpc, phonemes, id_map, ids, samples, wav, spc, trace, outcome>>
apiVars == <<req, resp, disk, loaded, vid, vname>>
vars == <<cacheVars, dslVars, ttsVars, apiVars>>

\* No request is being handled, no voice is being loaded or named.
ApiIdle ==
    /\ req = <<>>
    /\ resp = <<>>
    /\ disk = <<>>
    /\ loaded = <<>>
    /\ vid = <<>>
    /\ vname = <<>>

\* No call of phonemes_to_ids, samples_to_wav or speak is in progress.
TtsIdle ==
    /\ tpc = "idle"
    /\ phonemes = <<>>
    /\ id_map = [c \in {} |-> <<>>]
    /\ ids = <<>>
    /\ samples = <<>>
    /\ wav = <<>>
    /\ spc = "idle"
    /\ trace = <<>>
    /\ outcome = <<>>

\* ------------------------------------------------------------------------
\* tts/voice.rs
\* ------------------------------------------------------------------------

\* What the voices directory holds for one voice id: the .onnx file and the
\* .onnx.json sidecar.
FileStates ==
    [model : BOOLEAN, config : {"absent", "malformed", "valid"}]

\* Mutant of VoiceLoad: the sidecar is parsed before the .onnx file is looked for.
VoiceLoadParsesFirst(files, voice_id) ==
    IF files.config = "absent" THEN <<"Err", "VoiceNotFound">>
    ELSE IF files.config = "malformed" THEN <<"Err", "JsonError">>
    ELSE IF ~files.model THEN <<"Err", "VoiceNotFound">>
    ELSE <<"Ok", [id |-> voice_id]>>

\* Voice::load(voices_dir, voice_id)
VoiceLoad(files, voice_id) ==
    IF ~files.model THEN <<"Err", "VoiceNotFound">>
    ELSE IF files.config = "absent" THEN <<"Err", "VoiceNotFound">>
    ELSE IF files.config = "malformed" THEN <<"Err", "JsonError">>
    ELSE <<"Ok", [id |-> voice_id]>>

\* ------------------------------------------------------------------------
\* tts/piper.rs
\* ------------------------------------------------------------------------

\* PiperEngine::new(&voice), wrapped in Arc::new: the session is committed from
\* voice.model_path; `loads` is whether ONNX Runtime accepts the model file.
\* `by` is the identity of the allocation: a thread calls get_engine once and
\* allocates at most one engine, so the allocating thread names the Arc.
PiperEngineNew(v, loads, by) ==
    IF loads THEN <<"Ok", [id |-> by, voice |-> v.id]>>
    ELSE <<"Err", "TtsError">>

\* ------------------------------------------------------------------------
\* tts/mod.rs: TtsService
\* ------------------------------------------------------------------------

\* Mutant of MapInsert: the insert overwrites every entry with the new engine.
MapInsertClobbers(m, k, e) ==
    [x \in (DOMAIN m) \cup {k} |-> e]

\* Mutant of MapInsert: the insert drops the other entries (an eviction).
MapInsertEvicts(m, k, e) ==
    [x \in {k} |-> e]

\* Mutant of MapInsert: an entry that is there is kept (the first writer wins).
MapInsertKeepsFirst(m, k, e) ==
    [x \in (DOMAIN m) \cup {k} |-> IF x \in DOMAIN m THEN m[x] ELSE e]

\* HashMap::insert
MapInsert(m, k, e) ==
    [x \in (DOMAIN m) \cup {k} |-> IF x = k THEN e ELSE m[x]]

\* Mutant of MapGet: the lookup never finds the key.
MapGetNever(m, k) == <<>>

\* HashMap::get
MapGet(m, k) == IF k \in DOMAIN m THEN <<m[k]>> ELSE <<>>

OnMissPath(q) == pc[q] \in {"load", "construct", "acq_write", "insert"}

\* TtsService::new
CacheInit ==
    /\ engines = [v \in {} |-> <<>>]
    /\ readers = {}
    /\ writer = 0
    /\ pc = [p \in Procs |-> "idle"]
    /\ arg = [p \in Procs |-> ""]
    /\ voice = [p \in Procs |-> <<>>]
    /\ engine = [p \in Procs |-> <<>>]
    /\ seen = [p \in Procs |-> <<>>]
    /\ ret = [p \in Procs |-> <<>>]
    /\ raced = [v \in Voices |-> FALSE]
    /\ atStart = [p \in Procs |-> <<>>]

\* A request thread enters get_engine(voice_id) (each request runs on its own
\* worker and calls get_engine once, from speak).
Call(p, v) ==
    /\ pc[p] = "idle"
    /\ pc' = [pc EXCEPT ![p] = "acq_read"]
    /\ arg' = [arg EXCEPT ![p] = v]
    /\ atStart' = [atStart EXCEPT ![p] =
                       IF v \in DOMAIN engines THEN <<engines[v]>> ELSE <<>>]
    /\ UNCHANGED <<engines, readers, writer, voice, engine, seen, ret, raced>>

\* Mutant of AcquireRead: the lock is exclusive (a Mutex), readers wait for readers.
AcquireReadExclusive(p) ==
    /\ pc[p] = "acq_read"
    /\ writer = 0
    /\ readers = {}
    /\ readers' = readers \cup {p}
    /\ pc' = [pc EXCEPT ![p] = "lookup"]
    /\ UNCHANGED <<engines, writer, arg, voice, engine, seen, ret, raced, atStart>>

\* self.engines.read().unwrap(): granted while no writer holds the lock.
AcquireRead(p) ==
    /\ pc[p] = "acq_read"
    /\ writer = 0
    /\ readers' = readers \cup {p}
    /\ pc' = [pc EXCEPT ![p] = "lookup"]
    /\ UNCHANGED <<engines, writer, arg, voice, engine, seen, ret, raced, atStart>>

\* Mutant of Lookup: on a miss the read guard lives on through the load.
LookupKeepsGuard(p) ==
    /\ pc[p] = "lookup"
    /\ p \in readers
    /\ seen' = [seen EXCEPT ![p] = MapGet(engines, arg[p])]
    /\ IF seen'[p] # <<>>
       THEN /\ pc' = [pc EXCEPT ![p] = "done"]
            /\ ret' = [ret EXCEPT ![p] = <<"Ok", seen'[p][1]>>]
            /\ readers' = readers \ {p}
            /\ UNCHANGED raced
       ELSE /\ pc' = [pc EXCEPT ![p] = "load"]
            /\ raced' = [raced EXCEPT ![arg[p]] =
                            @ \/ \E q \in Procs \ {p} : OnMissPath(q) /\ arg[q] = arg[p]]
            /\ UNCHANGED <<ret, readers>>
    /\ UNCHANGED <<engines, writer, arg, voice, engine, atStart>>

\* engines.get(voice_id) under the read guard; the guard is dropped on the
\* return (hit) or at the end of the block (miss).
Lookup(p) ==
    /\ pc[p] = "lookup"
    /\ p \in readers
    /\ seen' = [seen EXCEPT ![p] = MapGet(engines, arg[p])]
    /\ readers' = readers \ {p}
    /\ IF seen'[p] # <<>>
       THEN /\ pc' = [pc EXCEPT ![p] = "done"]
            /\ ret' = [ret EXCEPT ![p] = <<"Ok", seen'[p][1]>>]
            /\ UNCHANGED raced
       ELSE /\ pc' = [pc EXCEPT ![p] = "load"]
            /\ raced' = [raced EXCEPT ![arg[p]] =
                            @ \/ \E q \in Procs \ {p} : OnMissPath(q) /\ arg[q] = arg[p]]
            /\ UNCHANGED ret
    /\ UNCHANGED <<engines, writer, arg, voice, engine, atStart>>

\* Mutant of Load: the voice is entered in the map before its files are
\* loaded, and the entry stays when the load fails.
LoadAfterInsert(p, files) ==
    /\ pc[p] = "load"
    /\ engines' = MapInsert(engines, arg[p], [id |-> p, voice |-> arg[p]])
    /\ LET r == VoiceLoad(files, arg[p]) IN
        IF r[1] = "Ok"
        THEN /\ voice' = [voice EXCEPT ![p] = <<r[2]>>]
             /\ pc' = [pc EXCEPT ![p] = "construct"]
             /\ UNCHANGED ret
        ELSE /\ ret' = [ret EXCEPT ![p] = r]
             /\ pc' = [pc EXCEPT ![p] = "failed"]
             /\ UNCHANGED voice
    /\ UNCHANGED <<readers, writer, arg, engine, seen, raced, atStart>>

\* let voice = Voice::load(&self.voices_dir, voice_id)?;
Load(p, files) ==
    /\ pc[p] = "load"
    /\ LET r == VoiceLoad(files, arg[p]) IN
        IF r[1] = "Ok"
        THEN /\ voice' = [voice EXCEPT ![p] = <<r[2]>>]
             /\ pc' = [pc EXCEPT ![p] = "construct"]
             /\ UNCHANGED ret
        ELSE /\ ret' = [ret EXCEPT ![p] = r]
             /\ pc' = [pc EXCEPT ![p] = "failed"]
             /\ UNCHANGED voice
    /\ UNCHANGED <<engines, readers, writer, arg, engine, seen, raced, atStart>>

\* let engine = Arc::new(PiperEngine::new(&voice)?);
Construct(p, loads) ==
    /\ pc[p] = "construct"
    /\ LET r == PiperEngineNew(voice[p][1], loads, p) IN
        IF r[1] = "Ok"
        THEN /\ engine' = [engine EXCEPT ![p] = <<r[2]>>]
             /\ pc' = [pc EXCEPT ![p] = "acq_write"]
             /\ UNCHANGED ret
        ELSE /\ ret' = [ret EXCEPT ![p] = r]
             /\ pc' = [pc EXCEPT ![p] = "failed"]
             /\ UNCHANGED engine
    /\ UNCHANGED <<engines, readers, writer, arg, voice, seen, raced, atStart>>

\* self.engines.write().unwrap(): granted while nobody holds the lock.
AcquireWrite(p) ==
    /\ pc[p] = "acq_write"
    /\ writer = 0
    /\ readers = {}
    /\ writer' = p
    /\ pc' = [pc EXCEPT ![p] = "insert"]
    /\ UNCHANGED <<engines, readers, arg, voice, engine, seen, ret, raced, atStart>>

\* engines.insert(voice_id.to_string(), Arc::clone(&engine)); the write guard
\* is dropped at the end of the block; Ok(engine).
Insert(p) ==
    /\ pc[p] = "insert"
    /\ writer = p
    /\ engines' = MapInsert(engines, arg[p], engine[p][1])
    /\ writer' = 0
    /\ ret' = [ret EXCEPT ![p] = <<"Ok", engine[p][1]>>]
    /\ pc' = [pc EXCEPT ![p] = "done"]
    /\ UNCHANGED <<readers, arg, voice, engine, seen, raced, atStart>>

\* The engines constructed for voice v so far, by identity.
Built(v) == {p \in Procs : engine[p] # <<>> /\ engine[p][1].voice = v}

\* The engine identities that completed calls for voice v have returned.
Returned(v) == {ret[p][2].id : p \in {q \in Procs : pc[q] = "done" /\ arg[q] = v}}

\* ------------------------------------------------------------------------
\* Properties of the engine cache (specification Spec)
\* ------------------------------------------------------------------------

Finished(p) == pc[p] = "done"
PastLookup(p) == pc[p] \in {"load", "construct", "acq_write", "insert", "done", "failed"}

\* C1 as stated: in any interleaving the engine of a voice is constructed at
\* most once and every caller for the voice receives that one instance.
C1_ConstructedAtMostOnce ==
    \A v \in Voices : Cardinality(Built(v)) <= 1 /\ Cardinality(Returned(v)) <= 1

\* C1 amended: the engine of a voice is constructed at most once and shared by
\* every caller unless two calls for the voice were on the miss path at the
\* same time; in every interleaving only a call that missed constructs, and a
\* caller receives the instance it found in the map (hit) or the one it
\* constructed itself (miss).
C1_OncePerMiss ==
    \A v \in Voices :
        /\ ~raced[v] => Cardinality(Built(v)) <= 1 /\ Cardinality(Returned(v)) <= 1
        /\ \A p \in Built(v) : arg[p] = v /\ seen[p] = <<>>
        /\ \A p \in Procs : Finished(p) /\ arg[p] = v =>
              /\ ret[p][1] = "Ok"
              /\ ret[p][2].id \in Built(v)
              /\ IF seen[p] # <<>> THEN ret[p][2] = seen[p][1]
                                   ELSE ret[p][2] = engine[p][1]

\* Two racing misses for one voice have each constructed and returned an engine.
C1_Witness ==
    \E v \in Voices : raced[v] /\ Cardinality(Built(v)) >= 2 /\ Cardinality(Returned(v)) >= 2

\* C2: a call that starts after an earlier call for the same voice has returned
\* successfully (the voice is then a key of the map) loads no descriptor and
\* constructs no engine, and, no other miss having raced the first call,
\* returns the very instance the earlier call returned.
C2_SecondCallShares ==
    \A p \in Procs : atStart[p] # <<>> /\ PastLookup(p) =>
        /\ Finished(p)
        /\ voice[p] = <<>>
        /\ engine[p] = <<>>
        /\ ret[p][1] = "Ok"
        /\ ~raced[arg[p]] =>
              /\ ret[p][2] = atStart[p][1]
              /\ \A q \in Procs : Finished(q) /\ arg[q] = arg[p] => ret[q] = ret[p]

\* A first call constructed and returned an engine; a second call that started
\* afterwards has returned the same instance.
C2_Witness ==
    \E p, q \in Procs :
        /\ p # q /\ arg[p] = arg[q] /\ Finished(p) /\ Finished(q)
        /\ engine[p] # <<>> /\ atStart[q] = engine[p]
        /\ ret[q] = ret[p] /\ engine[q] = <<>> /\ ~raced[arg[p]]

\* C3: the entry under key v is an engine constructed from voice v's
\* descriptor, and a get_engine(v) that returns an engine returns one
\* constructed for v.
C3_EngineMatchesKey ==
    /\ \A v \in DOMAIN engines : engines[v].voice = v
    /\ \A p \in Procs : Finished(p) => ret[p][1] = "Ok" /\ ret[p][2].voice = arg[p]

\* Engines of two different voices are cached and calls for both have returned.
C3_Witness ==
    \E p, q \in Procs :
        /\ Finished(p) /\ Finished(q) /\ arg[p] # arg[q]
        /\ {arg[p], arg[q]} \subseteq DOMAIN engines

\* C4: the read guard is held exactly during the lookup and the write guard
\* exactly during the insert; a thread loading a descriptor or constructing an
\* engine holds neither.
C4_NoLockWhileConstructing ==
    \A p \in Procs :
        /\ p \in readers <=> pc[p] = "lookup"
        /\ writer = p <=> pc[p] = "insert"
        /\ pc[p] \in {"load", "construct"} => p \notin readers /\ writer # p

\* One thread constructs an engine while another holds the read guard.
C4_Witness ==
    \E p, q \in Procs : pc[p] = "construct" /\ pc[q] = "lookup" /\ q \in readers

\* C5: the write guard is only ever held by a call that missed, and a caller
\* waiting for the read guard can take it whenever no missing call is waiting
\* for or holding the write guard, however many readers hold the lock.
C5_HitsShareReadLock ==
    /\ \A p \in Procs : writer = p => seen[p] = <<>> /\ engine[p] # <<>>
    /\ \A p \in Procs : Finished(p) /\ seen[p] # <<>> => engine[p] = <<>>
    /\ \A p \in Procs :
          pc[p] = "acq_read" /\ (\A q \in Procs : pc[q] \notin {"acq_write", "insert"})
              => ENABLED AcquireRead(p)

\* A caller for a cached voice waits for the read guard while another caller
\* for that voice holds it, and can take it too.
C5_Witness ==
    \E p, q \in Procs :
        /\ p # q /\ q \in readers /\ pc[p] = "acq_read"
        /\ arg[p] = arg[q] /\ arg[p] \in DOMAIN engines
        /\ ENABLED AcquireRead(p)

\* C6: a key of the engine map stays a key in every step, and a call that
\* started when its voice was a key leaves the lookup as a hit.
C6_NeverEvicts ==
    [][/\ \A v \in DOMAIN engines : v \in DOMAIN engines'
       /\ \A p \in Procs :
             pc[p] = "lookup" /\ pc'[p] # "lookup" /\ atStart[p] # <<>>
                 => pc'[p] = "done" /\ seen'[p] # <<>>]_vars

\* Both voices are cached and a call that started after its voice's insert hit.
C6_Witness ==
    /\ Cardinality(DOMAIN engines) >= 2
    /\ \E p \in Procs : Finished(p) /\ atStart[p] # <<>> /\ seen[p] # <<>>

\* ------------------------------------------------------------------------
\* Text: a Rust String is modelled as the sequence of its chars, each char a
\* one-character string; a char outside ASCII is spelled by its code point.
\* ------------------------------------------------------------------------

Lowers == <<"a", "b", "c", "d", "e", "f", "g", "h", "i", "j", "k", "l", "m",
            "n", "o", "p", "q", "r", "s", "t", "u", "v", "w", "x", "y", "z">>
Uppers == <<"A", "B", "C", "D", "E", "F", "G", "H", "I", "J", "K", "L", "M",
            "N", "O", "P", "Q", "R", "S", "T", "U", "V", "W", "X", "Y", "Z">>
AsciiDigits == <<"0", "1", "2", "3", "4", "5", "6", "7", "8", "9">>

\* LATIN SMALL LETTER SHARP S: alphabetic, lowercase, uppercases to "SS".
SharpS == "U+00DF"
\* ARABIC-INDIC DIGIT THREE: a decimal digit (\d, alphanumeric) that is not ASCII.
ArabicThree == "U+0663"

IndexOf(c, seq) == IF \E i \in DOMAIN seq : seq[i] = c
                   THEN CHOOSE i \in DOMAIN seq : seq[i] = c
                   ELSE 0

\* char::to_uppercase (a char may uppercase to several chars)
ToUpperChar(c) ==
    IF IndexOf(c, Lowers) > 0 THEN <<Uppers[IndexOf(c, Lowers)]>>
    ELSE IF c = SharpS THEN <<"S", "S">>
    ELSE <<c>>

\* char::to_lowercase
ToLowerChar(c) ==
    IF IndexOf(c, Uppers) > 0 THEN <<Lowers[IndexOf(c, Uppers)]>> ELSE <<c>>

\* char::is_alphanumeric
IsAlphanumeric(c) ==
    \/ IndexOf(c, Lowers) > 0
    \/ IndexOf(c, Uppers) > 0
    \/ IndexOf(c, AsciiDigits) > 0
    \/ c \in {SharpS, ArabicThree}

\* char::is_whitespace (split_whitespace)
IsWhitespace(c) == c \in {" ", "\t", "\n"}

\* the regex class \d (Unicode decimal digits)
IsDigit(c) == IndexOf(c, AsciiDigits) > 0 \/ c = ArabicThree

RECURSIVE Flatten(_)
\* concatenation of a sequence of strings
Flatten(ss) == IF ss = <<>> THEN <<>> ELSE Head(ss) \o Flatten(Tail(ss))

\* str::to_uppercase / str::to_lowercase, char by char
ToUppercase(s) == Flatten([i \in DOMAIN s |-> ToUpperChar(s[i])])
ToLowercase(s) == Flatten([i \in DOMAIN s |-> ToLowerChar(s[i])])

\* s[i..] starts with pat (i is 1-based)
StartsWithAt(s, i, pat) ==
    /\ i + Len(pat) - 1 <= Len(s)
    /\ \A k \in DOMAIN pat : s[i + k - 1] = pat[k]

RECURSIVE ReplaceFrom(_, _, _)
\* str::replace(pat, ""): the non-overlapping matches, left to right, removed
ReplaceFrom(s, i, pat) ==
    IF i > Len(s) THEN <<>>
    ELSE IF StartsWithAt(s, i, pat) THEN ReplaceFrom(s, i + Len(pat), pat)
    ELSE <<s[i]>> \o ReplaceFrom(s, i + 1, pat)

Remove(s, pat) == ReplaceFrom(s, 1, pat)

RECURSIVE Join(_, _)
\* [String]::join(sep)
Join(ss, sep) ==
    IF ss = <<>> THEN <<>>
    ELSE IF Len(ss) = 1 THEN ss[1]
    ELSE ss[1] \o sep \o Join(Tail(ss), sep)

RECURSIVE SplitFrom(_, _, _)
\* str::split_whitespace: the maximal runs of non-whitespace chars
SplitFrom(s, i, word) ==
    IF i > Len(s) THEN (IF word = <<>> THEN <<>> ELSE <<word>>)
    ELSE IF IsWhitespace(s[i])
         THEN (IF word = <<>> THEN <<>> ELSE <<word>>) \o SplitFrom(s, i + 1, <<>>)
         ELSE SplitFrom(s, i + 1, Append(word, s[i]))

SplitWhitespace(s) == SplitFrom(s, 1, <<>>)

\* ------------------------------------------------------------------------
\* dsl/parser.rs
\* ------------------------------------------------------------------------

Modes == <<"slow", "fast", "emphasis", "spell", "whisper">>

ModeName(k) ==
    CASE k = "slow" -> <<"s", "l", "o", "w">>
      [] k = "fast" -> <<"f", "a", "s", "t">>
      [] k = "emphasis" -> <<"e", "m", "p", "h", "a", "s", "i", "s">>
      [] k = "spell" -> <<"s", "p", "e", "l", "l">>
      [] k = "whisper" -> <<"w", "h", "i", "s", "p", "e", "r">>

OpenTag(k) == <<"[">> \o ModeName(k) \o <<"]">>
CloseTag(k) == <<"[", "/">> \o ModeName(k) \o <<"]">>
PauseTag == <<"[", "p", "a", "u", "s", "e", "]">>
PauseColon == <<"[", "p", "a", "u", "s", "e", ":">>

\* enum Token
TextToken(s) == [type |-> "Text", text |-> s, ms |-> <<>>]
PauseToken(ms) == [type |-> "Pause", text |-> <<>>, ms |-> ms]
StartToken(k) == [type |-> "Start", text |-> k, ms |-> <<>>]
EndToken(k) == [type |-> "End", text |-> k, ms |-> <<>>]

RECURSIVE DigitsEnd(_, _)
\* the end of the longest run of \d starting at i (the first index after it)
DigitsEnd(s, i) ==
    IF i <= Len(s) /\ IsDigit(s[i]) THEN DigitsEnd(s, i + 1) ELSE i

\* TAG_REGEX anchored at i: the length of the match, 0 when there is none
MatchLen(s, i) ==
    IF StartsWithAt(s, i, PauseColon)
       /\ DigitsEnd(s, i + 7) > i + 7
       /\ StartsWithAt(s, DigitsEnd(s, i + 7), <<"]">>)
    THEN DigitsEnd(s, i + 7) + 1 - i
    ELSE IF StartsWithAt(s, i, PauseTag) THEN 7
    ELSE IF \E n \in DOMAIN Modes : StartsWithAt(s, i, OpenTag(Modes[n]))
    THEN Len(OpenTag(CHOOSE k \in {Modes[n] : n \in DOMAIN Modes} : StartsWithAt(s, i, OpenTag(k))))
    ELSE IF \E n \in DOMAIN Modes : StartsWithAt(s, i, CloseTag(Modes[n]))
    THEN Len(CloseTag(CHOOSE k \in {Modes[n] : n \in DOMAIN Modes} : StartsWithAt(s, i, CloseTag(k))))
    ELSE 0

\* A u32 n is kept as its quotient and remainder by 200, n = 200 * q + r, so
\* that every u32 is representable here; u32::MAX = 200 * 21474836 + 95.
U32(q, r) == [q |-> q, r |-> r]
FitsU32(n) == n.q < 21474836 \/ (n.q = 21474836 /\ n.r <= 95)
\* n * 10 + d
Times10Plus(n, d) ==
    U32(n.q * 10 + ((n.r * 10 + d) \div 200), (n.r * 10 + d) % 200)

RECURSIVE ParseU32(_, _)
\* str::parse::<u32>: <<n>>, or <<>> for the error (a char that is no ASCII
\* digit, or a value above u32::MAX)
ParseU32(digits, acc) ==
    IF digits = <<>> THEN <<acc>>
    ELSE IF IndexOf(Head(digits), AsciiDigits) = 0 THEN <<>>
    ELSE LET n == Times10Plus(acc, IndexOf(Head(digits), AsciiDigits) - 1) IN
         IF ~FitsU32(n) THEN <<>> ELSE ParseU32(Tail(digits), n)

\* Mutant of ParseTag: a failed parse of the digits gives 0 ms, not 200.
ParseTagDefaultsToZero(tag) ==
    IF StartsWithAt(tag, 1, PauseColon)
    THEN LET ms == ParseU32(SubSeq(tag, 8, Len(tag) - 1), U32(0, 0)) IN
         PauseToken(IF ms = <<>> THEN <<U32(0, 0)>> ELSE ms)
    ELSE IF tag = PauseTag THEN PauseToken(<<>>)
    ELSE IF \E n \in DOMAIN Modes : tag = OpenTag(Modes[n])
    THEN StartToken(CHOOSE k \in {Modes[n] : n \in DOMAIN Modes} : tag = OpenTag(k))
    ELSE IF \E n \in DOMAIN Modes : tag = CloseTag(Modes[n])
    THEN EndToken(CHOOSE k \in {Modes[n] : n \in DOMAIN Modes} : tag = CloseTag(k))
    ELSE TextToken(tag)

\* parse_tag(tag_str, cap)
ParseTag(tag) ==
    IF StartsWithAt(tag, 1, PauseColon)
    THEN LET ms == ParseU32(SubSeq(tag, 8, Len(tag) - 1), U32(0, 0)) IN
         PauseToken(IF ms = <<>> THEN <<U32(1, 0)>> ELSE ms)
    ELSE IF tag = PauseTag THEN PauseToken(<<>>)
    ELSE IF \E n \in DOMAIN Modes : tag = OpenTag(Modes[n])
    THEN StartToken(CHOOSE k \in {Modes[n] : n \in DOMAIN Modes} : tag = OpenTag(k))
    ELSE IF \E n \in DOMAIN Modes : tag = CloseTag(Modes[n])
    THEN EndToken(CHOOSE k \in {Modes[n] : n \in DOMAIN Modes} : tag = CloseTag(k))
    ELSE TextToken(tag)

RECURSIVE ParseLoopSplitsChars(_, _, _, _)
\* Mutant of ParseLoop: every char outside a tag is pushed as a token of its own.
ParseLoopSplitsChars(s, at, lastEnd, toks) ==
    IF at <= Len(s) /\ MatchLen(s, at) = 0
    THEN ParseLoopSplitsChars(s, at + 1, at, toks \o <<TextToken(<<s[at]>>)>>)
    ELSE IF at <= Len(s)
    THEN LET n == MatchLen(s, at)
         IN ParseLoopSplitsChars(s, at + n, at + n - 1,
                                 toks \o <<ParseTag(SubSeq(s, at, at + n - 1))>>)
    ELSE toks

RECURSIVE ParseLoopDropsRest(_, _, _, _)
\* Mutant of ParseLoop: the text after the last tag is not pushed.
ParseLoopDropsRest(s, at, lastEnd, toks) ==
    IF at <= Len(s) /\ MatchLen(s, at) = 0 THEN ParseLoopDropsRest(s, at + 1, lastEnd, toks)
    ELSE IF at <= Len(s)
    THEN LET n == MatchLen(s, at)
             before == IF at - 1 > lastEnd /\ SubSeq(s, lastEnd + 1, at - 1) # <<>>
                       THEN <<TextToken(SubSeq(s, lastEnd + 1, at - 1))>>
                       ELSE <<>>
         IN ParseLoopDropsRest(s, at + n, at + n - 1,
                               toks \o before \o <<ParseTag(SubSeq(s, at, at + n - 1))>>)
    ELSE IF toks = <<>> /\ s # <<>> THEN <<TextToken(s)>> ELSE toks

RECURSIVE ParseLoop(_, _, _, _)
\* parse: the loop over TAG_REGEX.captures_iter(input) and the code after it.
\* `at` is where the regex search continues, lastEnd the 0-based offset
\* last_end (the number of chars consumed).
ParseLoop(s, at, lastEnd, toks) ==
    IF at <= Len(s) /\ MatchLen(s, at) = 0 THEN ParseLoop(s, at + 1, lastEnd, toks)
    ELSE IF at <= Len(s)
    THEN LET n == MatchLen(s, at)
             before == IF at - 1 > lastEnd /\ SubSeq(s, lastEnd + 1, at - 1) # <<>>
                       THEN <<TextToken(SubSeq(s, lastEnd + 1, at - 1))>>
                       ELSE <<>>
         IN ParseLoop(s, at + n, at + n - 1,
                      toks \o before \o <<ParseTag(SubSeq(s, at, at + n - 1))>>)
    ELSE LET rest == IF lastEnd < Len(s) /\ SubSeq(s, lastEnd + 1, Len(s)) # <<>>
                     THEN <<TextToken(SubSeq(s, lastEnd + 1, Len(s)))>>
                     ELSE <<>>
             all == toks \o rest
         IN IF all = <<>> /\ s # <<>> THEN <<TextToken(s)>> ELSE all

\* parse(input)
ParseInput(s) == ParseLoop(s, 1, 0, <<>>)

\* ------------------------------------------------------------------------
\* dsl/transforms.rs
\* ------------------------------------------------------------------------

\* TransformState::default()
DefaultState == [slow |-> FALSE, fast |-> FALSE, emphasis |-> FALSE,
                 spell |-> FALSE, whisper |-> FALSE]

Dots(n) == [i \in 1..n |-> "."]
Ellipsis == Dots(3)

\* apply_state, the spell branch
SpellRun(text) ==
    Join([i \in 1..Len(SelectSeq(text, IsAlphanumeric)) |->
             ToUpperChar(SelectSeq(text, IsAlphanumeric)[i]) \o <<".">>], <<" ">>)

\* apply_state, the whisper branch
WhisperRun(result) == <<"(">> \o ToLowercase(result) \o <<")">>

\* Mutant of SlowRun: the trailing marker is pushed whatever the joined text is.
SlowRunAlwaysTrails(result) ==
    Join(SplitWhitespace(result), Ellipsis \o <<" ">>) \o Ellipsis

\* apply_state, the slow branch
SlowRun(result) ==
    LET joined == Join(SplitWhitespace(result), Ellipsis \o <<" ">>) IN
    IF joined # <<>> THEN joined \o Ellipsis ELSE joined

\* apply_state, the fast branch
FastRun(result) == Remove(Remove(result, Ellipsis), <<",">>)

\* Mutant of ApplyState: the spell branch does not return, the later modes
\* are applied to the spelled text.
ApplyStateSpellFallsThrough(text, st) ==
    LET spelled == IF st.spell THEN SpellRun(text) ELSE text
        emphasised == IF st.emphasis THEN ToUppercase(spelled) ELSE spelled
    IN  IF st.whisper THEN WhisperRun(emphasised)
        ELSE LET slowed == IF st.slow THEN SlowRun(emphasised) ELSE emphasised
             IN  IF st.fast THEN FastRun(slowed) ELSE slowed

\* Mutant of ApplyState: the whisper branch does not return, slow and fast are
\* applied to the whispered text.
ApplyStateWhisperFallsThrough(text, st) ==
    IF st.spell THEN SpellRun(text)
    ELSE LET emphasised == IF st.emphasis THEN ToUppercase(text) ELSE text
             whispered == IF st.whisper THEN WhisperRun(emphasised) ELSE emphasised
             slowed == IF st.slow THEN SlowRun(whispered) ELSE whispered
         IN  IF st.fast THEN FastRun(slowed) ELSE slowed

\* Mutant of ApplyState: fast is an else-branch of slow.
ApplyStateSlowExcludesFast(text, st) ==
    IF st.spell THEN SpellRun(text)
    ELSE LET emphasised == IF st.emphasis THEN ToUppercase(text) ELSE text
         IN  IF st.whisper THEN WhisperRun(emphasised)
             ELSE IF st.slow THEN SlowRun(emphasised)
             ELSE IF st.fast THEN FastRun(emphasised)
             ELSE emphasised

\* Mutant of ApplyState: the punctuation clean-up of fast runs in every mode.
ApplyStateAlwaysStrips(text, st) ==
    IF st.spell THEN SpellRun(text)
    ELSE LET emphasised == IF st.emphasis THEN ToUppercase(text) ELSE text
         IN  IF st.whisper THEN WhisperRun(emphasised)
             ELSE LET slowed == IF st.slow THEN SlowRun(emphasised) ELSE emphasised
                  IN  FastRun(slowed)

\* apply_state(text, state)
ApplyState(text, st) ==
    IF st.spell THEN SpellRun(text)
    ELSE LET emphasised == IF st.emphasis THEN ToUppercase(text) ELSE text
         IN  IF st.whisper THEN WhisperRun(emphasised)
             ELSE LET slowed == IF st.slow THEN SlowRun(emphasised) ELSE emphasised
                  IN  IF st.fast THEN FastRun(slowed) ELSE slowed

\* Mutant of Max: the floor of 3 dots is applied as a ceiling.
MaxIsMin(a, b) == IF a <= b THEN a ELSE b

\* usize::max
Max(a, b) == IF a >= b THEN a ELSE b

\* ------------------------------------------------------------------------
\* dsl/mod.rs: process(input), run on bounded inputs
\* ------------------------------------------------------------------------

\* The number of pieces an input's body is made of.
MaxPieces == 2

\* The pieces input bodies are concatenated from: literal text, bracket text
\* that is no directive, parts of directives and whole directives.
Pieces == {
    <<"a", " ", "B">>,
    <<SharpS>>,
    <<",">>,
    <<" ">>,
    <<"[">>,
    <<"]">>,
    <<"[", "x", "]">>,
    PauseTag,
    CloseTag("slow"),
    CloseTag("whisper") }

\* The opening tags of a set of modes, in the order of Modes.
Prefix(S) ==
    Flatten([n \in DOMAIN Modes |-> IF Modes[n] \in S THEN OpenTag(Modes[n]) ELSE <<>>])

\* The inputs: the opening tags of any set of modes, then up to MaxPieces pieces.
Inputs ==
    {Prefix(S) \o Flatten(body) :
        S \in SUBSET {Modes[n] : n \in DOMAIN Modes},
        body \in UNION {[1..n -> Pieces] : n \in 0..MaxPieces}}

DslIdle ==
    /\ dpc = "input"
    /\ input = <<>>
    /\ tokens = <<>>
    /\ tix = 1
    /\ state = DefaultState
    /\ output = <<>>

\* process is called on an input text.
DslInit ==
    /\ dpc = "input"
    /\ input \in Inputs
    /\ tokens = <<>>
    /\ tix = 1
    /\ state = DefaultState
    /\ output = <<>>

\* let tokens = parser::parse(input); transform starts with an empty output
\* and the default state.
Parse ==
    /\ dpc = "input"
    /\ tokens' = ParseInput(input)
    /\ dpc' = IF tokens' = <<>> THEN "done" ELSE "transform"
    /\ UNCHANGED <<input, tix, state, output>>

\* Mutant of TransformStep: a start tag flips the flag instead of setting it.
TransformStepToggles ==
    /\ dpc = "transform"
    /\ tix <= Len(tokens)
    /\ LET token == tokens[tix] IN
        /\ output' =
              CASE token.type = "Text" -> output \o ApplyState(token.text, state)
                [] token.type = "Pause" /\ token.ms = <<>> -> output \o Dots(3)
                [] token.type = "Pause" /\ token.ms # <<>> ->
                       output \o Dots(Max(token.ms[1].q, 3))
                [] OTHER -> output
        /\ state' =
              CASE token.type = "Start" -> [state EXCEPT ![token.text] = ~state[token.text]]
                [] token.type = "End" -> [state EXCEPT ![token.text] = FALSE]
                [] OTHER -> state
    /\ tix' = tix + 1
    /\ dpc' = IF tix' > Len(tokens) THEN "done" ELSE "transform"
    /\ UNCHANGED <<input, tokens>>

\* transform: one iteration of `for token in tokens`.
TransformStep ==
    /\ dpc = "transform"
    /\ tix <= Len(tokens)
    /\ LET token == tokens[tix] IN
        /\ output' =
              CASE token.type = "Text" -> output \o ApplyState(token.text, state)
                [] token.type = "Pause" /\ token.ms = <<>> -> output \o Dots(3)
                [] token.type = "Pause" /\ token.ms # <<>> ->
                       output \o Dots(Max(token.ms[1].q, 3))
                [] OTHER -> output
        /\ state' =
              CASE token.type = "Start" -> [state EXCEPT ![token.text] = TRUE]
                [] token.type = "End" -> [state EXCEPT ![token.text] = FALSE]
                [] OTHER -> state
    /\ tix' = tix + 1
    /\ dpc' = IF tix' > Len(tokens) THEN "done" ELSE "transform"
    /\ UNCHANGED <<input, tokens>>

DslNext ==
    \/ Parse /\ UNCHANGED <<cacheVars, ttsVars, apiVars>>
    \/ TransformStep /\ UNCHANGED <<cacheVars, ttsVars, apiVars>>

DslStart == CacheInit /\ DslInit /\ TtsIdle /\ ApiIdle

DslSpec == DslStart /\ [][DslNext]_vars

\* ------------------------------------------------------------------------
\* Properties of the DSL (specification DslSpec)
\* ------------------------------------------------------------------------

\* transform is about to render a literal run
AtText == dpc = "transform" /\ tix <= Len(tokens) /\ tokens[tix].type = "Text"
Run == tokens[tix].text

\* the input holds a recognized directive
HasDirective(s) == \E i \in 1..Len(s) : MatchLen(s, i) > 0
Contains(s, pat) == \E i \in 1..Len(s) : StartsWithAt(s, i, pat)

\* C7: for every input with no recognized directive (unrecognized bracket text
\* and the empty text included) process returns the input unchanged.
C7_NoDirectiveIdentity ==
    dpc = "done" /\ ~HasDirective(input) => output = input

\* An input with the unrecognized tag [x] and other text came out unchanged.
C7_Witness ==
    /\ dpc = "done" /\ ~HasDirective(input)
    /\ Contains(input, <<"[", "x", "]">>) /\ Len(input) > 3
    /\ output = input

\* C8 as stated: with Slow and Fast active (Spell and Whisper not) the run is
\* rendered by the Slow rule alone, its pause markers kept.
C8_SlowShortCircuitsFast ==
    [][AtText /\ state.slow /\ state.fast /\ ~state.spell /\ ~state.whisper
          => output' = output \o SlowRun(IF state.emphasis THEN ToUppercase(Run) ELSE Run)]_vars

\* C8 amended: without Spell and Whisper, Slow and Fast are not exclusive: the
\* run (uppercased under Emphasis) is rendered by the Slow rule if Slow is
\* active, and the result then goes through the Fast rule if Fast is active,
\* which strips the pause markers Slow inserted.
C8_SlowThenFast ==
    [][AtText /\ ~state.spell /\ ~state.whisper
          => LET e == IF state.emphasis THEN ToUppercase(Run) ELSE Run
                 s == IF state.slow THEN SlowRun(e) ELSE e
             IN  output' = output \o (IF state.fast THEN FastRun(s) ELSE s)]_vars

\* "[slow][fast]a B" was rendered as "a B": the markers of Slow are gone.
C8_Witness ==
    /\ dpc = "done"
    /\ input = OpenTag("slow") \o OpenTag("fast") \o <<"a", " ", "B">>
    /\ state.slow /\ state.fast
    /\ output = <<"a", " ", "B">>

\* C9: with Spell active a run is rendered as its alphanumeric chars, each
\* uppercased and followed by a period, joined by single spaces, whatever the
\* other four flags are.
C9_SpellExclusive ==
    [][AtText /\ state.spell => output' = output \o SpellRun(Run)]_vars

\* With all five modes active "a B" was spelled "A. B.".
C9_Witness ==
    /\ dpc = "done"
    /\ state.spell /\ state.slow /\ state.fast /\ state.emphasis /\ state.whisper
    /\ tokens[Len(tokens)] = TextToken(<<"a", " ", "B">>)
    /\ output = <<"A", ".", " ", "B", ".">>

\* C10 as stated: with Whisper active and Spell not, a run is rendered as the
\* lowercased run in parentheses, also under Emphasis.
C10_WhisperLowercasesRun ==
    [][AtText /\ state.whisper /\ ~state.spell
          => output' = output \o <<"(">> \o ToLowercase(Run) \o <<")">>]_vars

\* the case mapping of c round-trips: lowercasing its uppercase gives its lowercase
RoundTrips(c) == ToLowercase(ToUpperChar(c)) = ToLowerChar(c)

\* C10 amended: with Whisper active and Spell not, a run is rendered in
\* parentheses as the lowercased run, or under Emphasis as the lowercased
\* uppercased run, whatever Slow and Fast are; the two agree when the case
\* mapping of every char of the run round-trips (as for all ASCII text).
C10_WhisperLowercasesEmphasised ==
    [][AtText /\ state.whisper /\ ~state.spell
          => /\ output' = output \o <<"(">>
                    \o ToLowercase(IF state.emphasis THEN ToUppercase(Run) ELSE Run)
                    \o <<")">>
             /\ (\A i \in DOMAIN Run : RoundTrips(Run[i]))
                    => output' = output \o <<"(">> \o ToLowercase(Run) \o <<")">>]_vars

\* Under Emphasis and Whisper the sharp s was rendered "(ss)".
C10_Witness ==
    /\ dpc = "done"
    /\ state.whisper /\ state.emphasis /\ ~state.spell
    /\ tokens[Len(tokens)] = TextToken(<<SharpS>>)
    /\ output = <<"(", "s", "s", ")">>

\* ------------------------------------------------------------------------
\* dsl::process on literal runs under every mode combination (RunSpec)
\* ------------------------------------------------------------------------

\* The length of the literal run of an input.
MaxRunLen == 4

\* The chars of the runs: a letter, whitespace, and the punctuation the slow
\* and fast rules read.
RunAlphabet == {"a", " ", ".", ","}

\* The inputs: the opening tags of any set of modes, then a run of up to
\* MaxRunLen chars.
RunInputs ==
    {Prefix(S) \o t :
        S \in SUBSET {Modes[n] : n \in DOMAIN Modes},
        t \in UNION {[1..n -> RunAlphabet] : n \in 0..MaxRunLen}}

\* process is called on an input text.
RunStart ==
    /\ CacheInit
    /\ ApiIdle
    /\ TtsIdle
    /\ dpc = "input"
    /\ input \in RunInputs
    /\ tokens = <<>>
    /\ tix = 1
    /\ state = DefaultState
    /\ output = <<>>

RunSpec == RunStart /\ [][DslNext]_vars

\* what the step in progress appended to the output
Rendered == SubSeq(output', Len(output) + 1, Len(output'))
Emphasised == IF state.emphasis THEN ToUppercase(Run) ELSE Run

\* C11 as stated: with Slow active (Spell, Whisper and Fast not) every run is
\* rendered as its words joined by a pause marker, with a trailing pause
\* marker after the last word, whatever the number of words.
C11_SlowAlwaysTrails ==
    [][AtText /\ state.slow /\ ~state.spell /\ ~state.whisper /\ ~state.fast
          => output' = output
                 \o Join(SplitWhitespace(Emphasised), Ellipsis \o <<" ">>) \o Ellipsis]_vars

\* C11 amended: with Slow active (Spell, Whisper and Fast not) a run with at
\* least one word is rendered as its words joined by "... " with a trailing
\* "..." after the last word, and a run with no word (whitespace only) is
\* rendered as the empty text, with no pause marker.
C11_SlowTrailsWords ==
    [][AtText /\ state.slow /\ ~state.spell /\ ~state.whisper /\ ~state.fast
          => LET words == SplitWhitespace(Emphasised) IN
             /\ words # <<>> =>
                   output' = output \o Join(words, Ellipsis \o <<" ">>) \o Ellipsis
             /\ words = <<>> => output' = output]_vars

\* "[slow]a a" was rendered "a... a...".
C11_Witness ==
    /\ dpc = "done"
    /\ input = OpenTag("slow") \o <<"a", " ", "a">>
    /\ output = <<"a", ".", ".", ".", " ", "a", ".", ".", ".">>

\* C12: a run rendered with Fast active (Spell, Whisper and Slow not) holds
\* no pause marker "..." and no comma.
C12_FastLeavesNoMarker ==
    [][AtText /\ state.fast /\ ~state.spell /\ ~state.whisper /\ ~state.slow
          => ~Contains(Rendered, Ellipsis) /\ ~Contains(Rendered, <<",">>)]_vars

\* ------------------------------------------------------------------------
\* Mode flags over sequences of opening and closing tags (ModeSpec)
\* ------------------------------------------------------------------------

\* The number of tags and runs of an input.
MaxTags == 3

ModeNames == {Modes[n] : n \in DOMAIN Modes}

\* The pieces: every opening tag, every closing tag, and a literal run.
ModePieces ==
    {OpenTag(k) : k \in ModeNames} \cup {CloseTag(k) : k \in ModeNames} \cup {<<"a">>}

ModeInputs == {Flatten(body) : body \in UNION {[1..n -> ModePieces] : n \in 0..MaxTags}}

\* process is called on an input text.
ModeStart ==
    /\ CacheInit
    /\ ApiIdle
    /\ TtsIdle
    /\ dpc = "input"
    /\ input \in ModeInputs
    /\ tokens = <<>>
    /\ tix = 1
    /\ state = DefaultState
    /\ output = <<>>

ModeSpec == ModeStart /\ [][DslNext]_vars

\* the positions of the tokens transform has consumed that start or end mode k
ModeTokens(k) ==
    {i \in 1..(tix - 1) : tokens[i].type \in {"Start", "End"} /\ tokens[i].text = k}

\* C13: after any token sequence, flag k is true exactly when the most recent
\* ModeStart(k)/ModeEnd(k) token consumed was a ModeStart(k) (false when there
\* was none): flags neither stack nor count.
C13_FlagIsLastModeToken ==
    \A k \in ModeNames :
        state[k] <=> \E i \in ModeTokens(k) :
                        /\ tokens[i].type = "Start"
                        /\ \A j \in ModeTokens(k) : j <= i

\* "[slow][slow][/slow]" was rendered: one End ended slow after two Starts.
C13_Witness ==
    /\ dpc = "done"
    /\ input = OpenTag("slow") \o OpenTag("slow") \o CloseTag("slow")
    /\ tix = 4
    /\ ~state.slow

\* ------------------------------------------------------------------------
\* parser::parse on timed pauses (PauseSpec)
\* ------------------------------------------------------------------------

\* The number of digit pieces of a timed pause.
MaxDigitPieces == 2

\* Digit pieces: single digits, a decimal digit that is not ASCII, and the
\* first nine digits of u32::MAX = 4294967295.
DigitPieces ==
    {<<"0">>, <<"1">>, <<"2">>, <<"5">>, <<"6">>, <<"9">>, <<ArabicThree>>,
     <<"4", "2", "9", "4", "9", "6", "7", "2", "9">>}

DigitStrings ==
    {Flatten(body) : body \in UNION {[1..n -> DigitPieces] : n \in 1..MaxDigitPieces}}

PauseInputs == {PauseColon \o d \o <<"]">> : d \in DigitStrings}

\* parse is called on "[pause:d]".
PauseStart ==
    /\ CacheInit
    /\ ApiIdle
    /\ TtsIdle
    /\ dpc = "input"
    /\ input \in PauseInputs
    /\ tokens = <<>>
    /\ tix = 1
    /\ state = DefaultState
    /\ output = <<>>

PauseNext == Parse /\ UNCHANGED <<cacheVars, ttsVars, apiVars>>

PauseSpec == PauseStart /\ [][PauseNext]_vars

\* the digit string d of the input "[pause:d]"
PauseDigits == SubSeq(input, 8, Len(input) - 1)

RECURSIVE StripZeros(_)
\* d without its leading zeros (one digit is kept)
StripZeros(d) == IF Len(d) > 1 /\ Head(d) = "0" THEN StripZeros(Tail(d)) ELSE d

RECURSIVE Decimal(_)
\* the decimal numeral of n = 200 * q + r
Decimal(n) ==
    LET last == <<AsciiDigits[(n.r % 10) + 1]>>
        tenth == 20 * n.q + (n.r \div 10)
    IN IF tenth = 0 THEN last
       ELSE Decimal(U32(tenth \div 200, tenth % 200)) \o last

RECURSIVE LeqNumeral(_, _)
\* a <= b for two ASCII numerals of the same length
LeqNumeral(a, b) ==
    \/ a = <<>>
    \/ IndexOf(Head(a), AsciiDigits) < IndexOf(Head(b), AsciiDigits)
    \/ Head(a) = Head(b) /\ LeqNumeral(Tail(a), Tail(b))

U32Max == <<"4", "2", "9", "4", "9", "6", "7", "2", "9", "5">>

\* d is made of ASCII digits and denotes a number of at most u32::MAX
DenotesU32(d) ==
    /\ \A i \in DOMAIN d : IndexOf(d[i], AsciiDigits) > 0
    /\ \/ Len(StripZeros(d)) < Len(U32Max)
       \/ Len(StripZeros(d)) = Len(U32Max) /\ LeqNumeral(StripZeros(d), U32Max)

\* C14 as stated: for every digit string d, "[pause:d]" is tokenized into the
\* single token Pause(Some(n)) where n is the number d denotes.
C14_PauseIsDenotedNumber ==
    dpc # "input" =>
        /\ Len(tokens) = 1
        /\ tokens[1].type = "Pause"
        /\ tokens[1].ms # <<>>
        /\ Decimal(tokens[1].ms[1]) = StripZeros(PauseDigits)

\* C14 amended: "[pause:d]" is tokenized into a single token Pause(Some(n));
\* n is the number d denotes when d is made of ASCII digits and denotes at
\* most 4294967295, and n is 200 otherwise.
C14_PauseIsNumberOrDefault ==
    dpc # "input" =>
        /\ Len(tokens) = 1
        /\ tokens[1].type = "Pause"
        /\ tokens[1].ms # <<>>
        /\ DenotesU32(PauseDigits) =>
               Decimal(tokens[1].ms[1]) = StripZeros(PauseDigits)
        /\ ~DenotesU32(PauseDigits) => tokens[1].ms[1] = U32(1, 0)

\* "[pause:4294967295]" was tokenized into Pause(Some(4294967295)).
C14_Witness ==
    /\ dpc # "input"
    /\ PauseDigits = U32Max
    /\ tokens = <<PauseToken(<<U32(21474836, 95)>>)>>

\* ------------------------------------------------------------------------
\* dsl::process on one pause under every mode combination (DurSpec)
\* ------------------------------------------------------------------------

\* The longest timed pause, in ms.
MaxMs == 1250

\* The inputs: the opening tags of any set of modes, then "[pause]" or
\* "[pause:ms]".
DurInputs ==
    {Prefix(S) \o p :
        S \in SUBSET ModeNames,
        p \in {PauseTag} \cup
              {PauseColon \o Decimal(U32(ms \div 200, ms % 200)) \o <<"]">> : ms \in 0..MaxMs}}

\* process is called on an input text.
DurStart ==
    /\ CacheInit
    /\ ApiIdle
    /\ TtsIdle
    /\ dpc = "input"
    /\ input \in DurInputs
    /\ tokens = <<>>
    /\ tix = 1
    /\ state = DefaultState
    /\ output = <<>>

DurSpec == DurStart /\ [][DslNext]_vars

\* transform is about to render a pause
AtPause == dpc = "transform" /\ tix <= Len(tokens) /\ tokens[tix].type = "Pause"
PauseMs == 200 * tokens[tix].ms[1].q + tokens[tix].ms[1].r

IsToken(t) ==
    \/ t.type = "Text" /\ t.ms = <<>>
    \/ t.type = "Pause" /\ t.text = <<>> /\ Len(t.ms) <= 1
    \/ t.type \in {"Start", "End"} /\ t.text \in ModeNames /\ t.ms = <<>>

\* C16: for every input parse returns a sequence of tokens in which no Text
\* token is empty and no two Text tokens are adjacent; the empty input gives
\* the empty sequence.
C16_TextRunsCoalesced ==
    dpc # "input" =>
        /\ \A i \in DOMAIN tokens : IsToken(tokens[i])
        /\ \A i \in DOMAIN tokens : tokens[i].type = "Text" => tokens[i].text # <<>>
        /\ \A i \in 1..(Len(tokens) - 1) :
              ~(tokens[i].type = "Text" /\ tokens[i + 1].type = "Text")
        /\ input = <<>> => tokens = <<>>

\* "[slow][x]a B" was tokenized: the unrecognized "[x]" and the text after it
\* are one run.
C16_Witness ==
    /\ dpc # "input"
    /\ input = OpenTag("slow") \o <<"[", "x", "]", "a", " ", "B">>
    /\ tokens = <<StartToken("slow"), TextToken(<<"[", "x", "]", "a", " ", "B">>)>>

\* ------------------------------------------------------------------------
\* tts/piper.rs: phonemes_to_ids (EncodeSpec)
\* ------------------------------------------------------------------------

\* The length of the phoneme string.
MaxPhonemes == 2

\* A phoneme_id_map with the three reserved keys, a key mapped to two ids and
\* a key that is not ASCII.
AeLigature == "U+00E6"
FullIdMap ==
    [c \in {"^", "$", "_", "a", AeLigature} |->
        CASE c = "^" -> <<1>>
          [] c = "$" -> <<2>>
          [] c = "_" -> <<3>>
          [] c = "a" -> <<4, 5>>
          [] OTHER -> <<6>>]

\* The tables: FullIdMap with any of its keys missing.
IdMaps == {[c \in K |-> FullIdMap[c]] : K \in SUBSET DOMAIN FullIdMap}

\* The chars of a phoneme string; "c" is in no table.
PhonemeChars == {"a", AeLigature, "c", "_"}
PhonemeStrings == UNION {[1..n -> PhonemeChars] : n \in 0..MaxPhonemes}

RECURSIVE EncodeLoopPadsMatched(_, _, _)
\* Mutant of EncodeLoop: padding is added only after a mapped char.
EncodeLoopPadsMatched(chars, m, acc) ==
    IF chars = <<>> THEN acc
    ELSE LET mapped == MapGet(m, Head(chars))
             pad == MapGet(m, "_")
         IN EncodeLoopPadsMatched(Tail(chars), m,
                acc \o (IF mapped # <<>> /\ pad # <<>> THEN mapped[1] \o pad[1]
                        ELSE <<>>))

RECURSIVE EncodeLoop(_, _, _)
\* phonemes_to_ids: the loop `for ch in phonemes.chars()`
EncodeLoop(chars, m, acc) ==
    IF chars = <<>> THEN acc
    ELSE LET mapped == MapGet(m, Head(chars))
             pad == MapGet(m, "_")
         IN EncodeLoop(Tail(chars), m,
                acc \o (IF mapped # <<>> THEN mapped[1] ELSE <<>>)
                    \o (IF pad # <<>> THEN pad[1] ELSE <<>>))

\* phonemes_to_ids(phonemes, id_map)
PhonemesToIds(p, m) ==
    LET bos == MapGet(m, "^")
        eos == MapGet(m, "$")
    IN EncodeLoop(p, m, IF bos # <<>> THEN bos[1] ELSE <<0>>)
           \o (IF eos # <<>> THEN eos[1] ELSE <<0>>)

\* phonemes_to_ids is called on a phoneme string and a table.
EncodeStart ==
    /\ CacheInit
    /\ ApiIdle
    /\ DslIdle
    /\ tpc = "call"
    /\ phonemes \in PhonemeStrings
    /\ id_map \in IdMaps
    /\ ids = <<>>
    /\ samples = <<>>
    /\ wav = <<>>
    /\ spc = "idle"
    /\ trace = <<>>
    /\ outcome = <<>>

Encode ==
    /\ tpc = "call"
    /\ ids' = PhonemesToIds(phonemes, id_map)
    /\ tpc' = "done"
    /\ UNCHANGED <<phonemes, id_map, samples, wav, spc, trace, outcome>>

EncodeNext == Encode /\ UNCHANGED <<cacheVars, dslVars, apiVars>>

EncodeSpec == EncodeStart /\ [][EncodeNext]_vars

\* the table's entry for c, nothing when c is not mapped
Entry(c) == IF c \in DOMAIN id_map THEN id_map[c] ELSE <<>>

\* C17: the ids are the entry for "^" (or [0]), then for each char c of the
\* phonemes in order the entry for c if there is one followed by the entry for
\* "_" if there is one, then the entry for "$" (or [0]); the empty string with
\* the empty table gives [0, 0].
C17_EncodeShape ==
    tpc = "done" =>
        /\ ids = (IF "^" \in DOMAIN id_map THEN id_map["^"] ELSE <<0>>)
                 \o Flatten([i \in DOMAIN phonemes |-> Entry(phonemes[i]) \o Entry("_")])
                 \o (IF "$" \in DOMAIN id_map THEN id_map["$"] ELSE <<0>>)
        /\ phonemes = <<>> /\ DOMAIN id_map = {} => ids = <<0, 0>>

\* "ca" was encoded with the full table: the unmapped "c" gave only padding.
C17_Witness ==
    /\ tpc = "done"
    /\ phonemes = <<"c", "a">>
    /\ id_map = FullIdMap
    /\ ids = <<1, 3, 4, 5, 3, 2>>

\* ------------------------------------------------------------------------
\* tts/piper.rs: samples_to_wav (WavSpec)
\* ------------------------------------------------------------------------

\* The number of samples, and the largest numerator of a sample.
MaxSamples == 2
MaxNum == 4

\* The f32 samples: the fractions num/den that f32 holds exactly, inside and
\* outside [-1, 1].
SampleValues == [num : -MaxNum..MaxNum, den : {1, 2, 4, 8}]
SampleSeqs == UNION {[1..n -> SampleValues] : n \in 0..MaxSamples}
SampleRates == {16000, 22050}

\* Mutant of Scaled: unit gain.
ScaledUnitGain(s) == [num |-> s.num * 32767, den |-> s.den]

\* sample * 2.0 * 32767.0
Scaled(s) == [num |-> s.num * 2 * 32767, den |-> s.den]

\* f32::clamp(lo, hi)
Clamp(x, lo, hi) ==
    IF x.num < lo * x.den THEN [num |-> lo, den |-> 1]
    ELSE IF x.num > hi * x.den THEN [num |-> hi, den |-> 1]
    ELSE x

\* `as i16` of a value within the range of i16: the fraction is dropped
Trunc(x) == IF x.num >= 0 THEN x.num \div x.den ELSE -((-x.num) \div x.den)

\* Mutant of SampleToI16: no clamp, and the cast keeps the low 16 bits.
SampleToI16Wraps(s) == ((Trunc(Scaled(s)) + 32768) % 65536) - 32768

\* (sample * 2.0 * 32767.0).clamp(-32768.0, 32767.0) as i16
SampleToI16(s) == Trunc(Clamp(Scaled(s), -32768, 32767))

\* samples_to_wav(samples, sample_rate): the WavSpec and the samples written
SamplesToWav(ss, rate) ==
    [channels |-> 1, sample_rate |-> rate, bits_per_sample |-> 16,
     sample_format |-> "Int", data |-> [i \in DOMAIN ss |-> SampleToI16(ss[i])]]

\* samples_to_wav is called on a sequence of samples.
WavStart ==
    /\ CacheInit
    /\ ApiIdle
    /\ DslIdle
    /\ tpc = "call"
    /\ phonemes = <<>>
    /\ id_map = [c \in {} |-> <<>>]
    /\ ids = <<>>
    /\ samples \in SampleSeqs
    /\ wav = <<>>
    /\ spc = "idle"
    /\ trace = <<>>
    /\ outcome = <<>>

EncodeWav(rate) ==
    /\ tpc = "call"
    /\ wav' = <<SamplesToWav(samples, rate)>>
    /\ tpc' = "done"
    /\ UNCHANGED <<phonemes, id_map, ids, samples, spc, trace, outcome>>

WavNext == \E rate \in SampleRates : EncodeWav(rate) /\ UNCHANGED <<cacheVars, dslVars, apiVars>>

WavSpec == WavStart /\ [][WavNext]_vars

\* d is v = n/den clamped to [-32768, 32767] and truncated (n/den scaled)
ClampedTruncated(d, n, den) ==
    /\ n >= 32767 * den => d = 32767
    /\ n <= -32768 * den => d = -32768
    /\ 0 <= n /\ n < 32767 * den => d >= 0 /\ d * den <= n /\ n < (d + 1) * den
    /\ -32768 * den < n /\ n < 0 => d <= 0 /\ d * den >= n /\ n > (d - 1) * den

Written == wav[1].data

C19_ClampsOutOfRange ==
    tpc = "done" =>
        \A i \in DOMAIN samples :
            /\ samples[i].num > samples[i].den => Written[i] = 32767
            /\ samples[i].num < -samples[i].den => Written[i] = -32768

\* 2.0 and -1.5 were written as 32767 and -32768.
C19_Witness ==
    /\ tpc = "done"
    /\ samples = <<[num |-> 2, den |-> 1], [num |-> -3, den |-> 2]>>
    /\ Written = <<32767, -32768>>

\* ------------------------------------------------------------------------
\* tts/mod.rs: TtsService::speak, one request (SpeakSpec)
\* ------------------------------------------------------------------------

\* The thread that serves the request.
Speaker == CHOOSE p \in Procs : TRUE

\* The texts of the request: empty, plain, and with directives.
SpeakTexts == {<<>>, <<"a">>, OpenTag("slow") \o <<"a", " ", "a">>, PauseTag}

\* What the external steps can return.
SpeakIdMaps == {FullIdMap, [c \in {} |-> <<>>]}
SpeakSamples == {<<>>} \cup {<<s>> : s \in SampleValues}

\* The statements of speak, in program order.
SpeakSteps ==
    <<"get_engine", "process", "load", "phonemize", "phonemes_to_ids",
      "synthesize", "samples_to_wav">>

\* speak(text, voice_id) is about to be called.
SpeakStart ==
    /\ CacheInit
    /\ ApiIdle
    /\ dpc = "input"
    /\ input \in SpeakTexts
    /\ tokens = <<>>
    /\ tix = 1
    /\ state = DefaultState
    /\ output = <<>>
    /\ TtsIdle

Started(step) == Append(trace, <<step, "run">>)
Ended(how) == [trace EXCEPT ![Len(trace)] = <<trace[Len(trace)][1], how>>]
Ran(step, how) == Append(trace, <<step, how>>)

\* let engine = self.get_engine(voice_id)?;  -- the call
SpeakCall(v) ==
    /\ spc = "idle"
    /\ Call(Speaker, v)
    /\ spc' = "get_engine"
    /\ trace' = Started("get_engine")
    /\ UNCHANGED <<tpc, phonemes, id_map, ids, samples, wav, outcome>>

\* get_engine runs
SpeakGetEngine ==
    /\ spc = "get_engine"
    /\ \/ AcquireRead(Speaker)
       \/ Lookup(Speaker)
       \/ \E files \in FileStates : Load(Speaker, files)
       \/ \E loads \in BOOLEAN : Construct(Speaker, loads)
       \/ AcquireWrite(Speaker)
       \/ Insert(Speaker)
    /\ UNCHANGED ttsVars

\* get_engine has returned: `?` returns its error, or speak goes on
SpeakGotEngine ==
    /\ spc = "get_engine"
    /\ ret[Speaker] # <<>>
    /\ IF ret[Speaker][1] = "Ok"
       THEN /\ spc' = "process"
            /\ trace' = Ended("ok")
            /\ UNCHANGED outcome
       ELSE /\ spc' = "done"
            /\ trace' = Ended("err")
            /\ outcome' = <<"Err", "get_engine", ret[Speaker][2]>>
    /\ UNCHANGED <<tpc, phonemes, id_map, ids, samples, wav>>

\* let processed = dsl::process(text);
SpeakParse ==
    /\ spc = "process"
    /\ Parse
    /\ trace' = IF dpc' = "done" THEN Ran("process", "ok") ELSE Started("process")
    /\ UNCHANGED <<tpc, phonemes, id_map, ids, samples, wav, spc, outcome>>

SpeakTransform ==
    /\ spc = "process"
    /\ TransformStep
    /\ trace' = IF dpc' = "done" THEN Ended("ok") ELSE trace
    /\ UNCHANGED <<tpc, phonemes, id_map, ids, samples, wav, spc, outcome>>

\* let voice = Voice::load(&self.voices_dir, voice_id)?;
SpeakLoad(files, m) ==
    /\ spc = "process"
    /\ dpc = "done"
    /\ LET r == VoiceLoad(files, arg[Speaker]) IN
          IF r[1] = "Ok"
          THEN /\ trace' = Ran("load", "ok")
               /\ spc' = "phonemize"
               /\ id_map' = m
               /\ UNCHANGED outcome
          ELSE /\ trace' = Ran("load", "err")
               /\ spc' = "done"
               /\ outcome' = <<"Err", "load", r[2]>>
               /\ UNCHANGED id_map
    /\ UNCHANGED <<tpc, phonemes, ids, samples, wav>>

\* Mutant of SpeakPhonemize: a failure of espeak-ng is replaced by the empty
\* phoneme string and speak goes on.
SpeakPhonemizeGoesOn(runs, ph) ==
    /\ spc = "phonemize"
    /\ phonemes' = IF output = <<>> \/ ~runs THEN <<>> ELSE ph
    /\ trace' = Ran("phonemize", IF output = <<>> \/ runs THEN "ok" ELSE "err")
    /\ spc' = "phonemes_to_ids"
    /\ UNCHANGED <<tpc, id_map, ids, samples, wav, outcome>>

\* let phonemes = piper::phonemize(&processed, espeak_voice)?;
\* espeak-ng is not run for the empty text; otherwise it fails or prints ph.
SpeakPhonemize(runs, ph) ==
    /\ spc = "phonemize"
    /\ IF output = <<>> \/ runs
       THEN /\ phonemes' = IF output = <<>> THEN <<>> ELSE ph
            /\ trace' = Ran("phonemize", "ok")
            /\ spc' = "phonemes_to_ids"
            /\ UNCHANGED outcome
       ELSE /\ trace' = Ran("phonemize", "err")
            /\ spc' = "done"
            /\ outcome' = <<"Err", "phonemize", "TtsError">>
            /\ UNCHANGED phonemes
    /\ UNCHANGED <<tpc, id_map, ids, samples, wav>>

\* let ids = piper::phonemes_to_ids(&phonemes, &voice.config.phoneme_id_map);
SpeakEncode ==
    /\ spc = "phonemes_to_ids"
    /\ ids' = PhonemesToIds(phonemes, id_map)
    /\ trace' = Ran("phonemes_to_ids", "ok")
    /\ spc' = "synthesize"
    /\ UNCHANGED <<tpc, phonemes, id_map, samples, wav, outcome>>

\* let samples = engine.synthesize(&ids)?;
\* no inference is run for no ids; otherwise it fails or returns ss.
SpeakSynthesize(runs, ss) ==
    /\ spc = "synthesize"
    /\ IF ids = <<>> \/ runs
       THEN /\ samples' = IF ids = <<>> THEN <<>> ELSE ss
            /\ trace' = Ran("synthesize", "ok")
            /\ spc' = "samples_to_wav"
            /\ UNCHANGED outcome
       ELSE /\ trace' = Ran("synthesize", "err")
            /\ spc' = "done"
            /\ outcome' = <<"Err", "synthesize", "TtsError">>
            /\ UNCHANGED samples
    /\ UNCHANGED <<tpc, phonemes, id_map, ids, wav>>

\* let wav = piper::samples_to_wav(&samples, sample_rate)?; Ok(wav)
SpeakWav(writes, rate) ==
    /\ spc = "samples_to_wav"
    /\ IF writes
       THEN /\ wav' = <<SamplesToWav(samples, rate)>>
            /\ trace' = Ran("samples_to_wav", "ok")
            /\ outcome' = <<"Ok">>
       ELSE /\ trace' = Ran("samples_to_wav", "err")
            /\ outcome' = <<"Err", "samples_to_wav", "TtsError">>
            /\ UNCHANGED wav
    /\ spc' = "done"
    /\ UNCHANGED <<tpc, phonemes, id_map, ids, samples>>

SpeakNext ==
    \/ \E v \in Voices : SpeakCall(v) /\ UNCHANGED <<dslVars, apiVars>>
    \/ SpeakGetEngine /\ UNCHANGED <<dslVars, apiVars>>
    \/ SpeakGotEngine /\ UNCHANGED <<cacheVars, dslVars, apiVars>>
    \/ SpeakParse /\ UNCHANGED <<cacheVars, apiVars>>
    \/ SpeakTransform /\ UNCHANGED <<cacheVars, apiVars>>
    \/ \E files \in FileStates, m \in SpeakIdMaps :
          SpeakLoad(files, m) /\ UNCHANGED <<cacheVars, dslVars, apiVars>>
    \/ \E runs \in BOOLEAN, ph \in PhonemeStrings :
          SpeakPhonemize(runs, ph) /\ UNCHANGED <<cacheVars, dslVars, apiVars>>
    \/ SpeakEncode /\ UNCHANGED <<cacheVars, dslVars, apiVars>>
    \/ \E runs \in BOOLEAN, ss \in SpeakSamples :
          SpeakSynthesize(runs, ss) /\ UNCHANGED <<cacheVars, dslVars, apiVars>>
    \/ \E writes \in BOOLEAN, rate \in SampleRates :
          SpeakWav(writes, rate) /\ UNCHANGED <<cacheVars, dslVars, apiVars>>

SpeakSpec == SpeakStart /\ [][SpeakNext]_vars

\* C20: speak runs its steps in program order, in which render(tokenize) comes
\* before phonemize, phonemize before phoneme-encode, that before synthesize
\* and that before encode_wav; a step starts only after every earlier step
\* has succeeded; the first failing step ends the request with that step's
\* error and no later step is executed; Ok is returned only after all steps.
C20_StepsShortCircuit ==
    /\ Len(trace) <= Len(SpeakSteps)
    /\ \A i \in DOMAIN trace : trace[i][1] = SpeakSteps[i]
    /\ \A i \in 1..(Len(trace) - 1) : trace[i][2] = "ok"
    /\ \A i \in DOMAIN trace :
          trace[i][2] = "err" =>
              /\ spc = "done"
              /\ outcome # <<>> /\ outcome[1] = "Err" /\ outcome[2] = trace[i][1]
    /\ outcome # <<>> /\ outcome[1] = "Err" => trace[Len(trace)] = <<outcome[2], "err">>
    /\ outcome = <<"Ok">> =>
          Len(trace) = Len(SpeakSteps) /\ \A i \in DOMAIN trace : trace[i][2] = "ok"
    /\ spc = "done" <=> outcome # <<>>
    /\ wav # <<>> => outcome = <<"Ok">>

\* phonemize failed after a successful render: the request ended with its
\* error and nothing was encoded, synthesized or written.
C20_Witness ==
    /\ spc = "done"
    /\ outcome = <<"Err", "phonemize", "TtsError">>
    /\ trace = <<<<"get_engine", "ok">>, <<"process", "ok">>, <<"load", "ok">>,
                 <<"phonemize", "err">>>>
    /\ output = <<"a", ".", ".", ".", " ", "a", ".", ".", ".">>
    /\ ids = <<>> /\ samples = <<>> /\ wav = <<>>

\* ------------------------------------------------------------------------
\* api/handlers.rs: speak (HandlerSpec)
\* ------------------------------------------------------------------------

\* The number of runs of a request text.
MaxRuns == 2

\* if request.text.len() > 10000
MaxTextLen == 10000

\* A request text is kept run-length encoded: a sequence of runs [ch, n], n
\* copies of the char ch. The chars take 1, 2 and 3 bytes in UTF-8.
EAcute == "U+00E9"
EuroSign == "U+20AC"
Utf8Len(ch) == CASE ch = "a" -> 1 [] ch = EAcute -> 2 [] ch = EuroSign -> 3

TextRuns == [ch : {"a", EAcute, EuroSign}, n : {1, 5000, 5001, 10000, 10001}]
RequestTexts == UNION {[1..k -> TextRuns] : k \in 0..MaxRuns}
RequestVoices == Voices \cup {""}

RECURSIVE TextLen(_)
\* str::len: the number of bytes
TextLen(t) == IF t = <<>> THEN 0 ELSE Head(t).n * Utf8Len(Head(t).ch) + TextLen(Tail(t))

RECURSIVE CharCount(_)
\* the number of characters of the text
CharCount(t) == IF t = <<>> THEN 0 ELSE Head(t).n + CharCount(Tail(t))

\* A request has been deserialized and the handler is about to run.
HandlerStart ==
    /\ CacheInit
    /\ DslIdle
    /\ TtsIdle
    /\ req \in {<<[text |-> t, voice |-> v]>> : t \in RequestTexts, v \in RequestVoices}
    /\ resp = <<>>
    /\ disk = <<>>
    /\ loaded = <<>>
    /\ vid = <<>>
    /\ vname = <<>>

\* speak: the three validations, then the call of state.tts.speak
HandleSpeak ==
    /\ req # <<>>
    /\ resp = <<>>
    /\ spc = "idle"
    /\ IF \/ TextLen(req[1].text) = 0
          \/ TextLen(req[1].text) > MaxTextLen
          \/ req[1].voice = ""
       THEN /\ resp' = <<"Err", "BadRequest">>
            /\ UNCHANGED <<cacheVars, ttsVars>>
       ELSE /\ SpeakCall(req[1].voice)
            /\ UNCHANGED resp
    /\ UNCHANGED <<req, disk, loaded, vid, vname>>

\* The steps of TtsService::speak after get_engine, taken as one: they end
\* with Ok or with the error of one of them.
SpeakRest(kind) ==
    /\ spc = "process"
    /\ spc' = "done"
    /\ outcome' = IF kind = "Ok" THEN <<"Ok">> ELSE <<"Err", "speak", kind>>
    /\ trace' = Ended(IF kind = "Ok" THEN "ok" ELSE "err")
    /\ UNCHANGED <<tpc, phonemes, id_map, ids, samples, wav>>

\* state.tts.speak(..)? has returned: the error, or the audio/wav response
HandlerReturn ==
    /\ spc = "done"
    /\ resp = <<>>
    /\ resp' = IF outcome[1] = "Ok" THEN <<"Ok">> ELSE <<"Err", outcome[3]>>
    /\ UNCHANGED <<req, disk, loaded, vid, vname>>

HandlerNext ==
    \/ HandleSpeak /\ UNCHANGED dslVars
    \/ SpeakGetEngine /\ UNCHANGED <<dslVars, apiVars>>
    \/ SpeakGotEngine /\ UNCHANGED <<cacheVars, dslVars, apiVars>>
    \/ \E kind \in {"Ok", "VoiceNotFound", "JsonError", "TtsError"} :
          SpeakRest(kind) /\ UNCHANGED <<cacheVars, dslVars, apiVars>>
    \/ HandlerReturn /\ UNCHANGED <<cacheVars, dslVars, ttsVars>>

HandlerSpec == HandlerStart /\ [][HandlerNext]_vars

\* the validations have been passed and TtsService::speak was called
Reached == spc # "idle"

\* C21: a request reaches TtsService::speak exactly when its text has between
\* 1 and 10000 characters and its voice is non-empty; otherwise it is
\* rejected with BadRequest, nothing of speak has run and the engine map is
\* unchanged.
C21_ReachesIffValid ==
    resp # <<>> \/ Reached =>
        /\ Reached <=> /\ 1 <= CharCount(req[1].text)
                       /\ CharCount(req[1].text) <= 10000
                       /\ req[1].voice # ""
        /\ ~Reached => /\ resp = <<"Err", "BadRequest">>
                       /\ trace = <<>>
                       /\ DOMAIN engines = {}

\* ------------------------------------------------------------------------
\* tts/voice.rs: Voice::load and the error it becomes (VoiceSpec)
\* ------------------------------------------------------------------------

\* AppError::into_response: the status and the code of the error response
IntoResponse(kind) ==
    CASE kind = "VoiceNotFound" -> [status |-> 404, code |-> "VOICE_NOT_FOUND"]
      [] kind = "BadRequest" -> [status |-> 400, code |-> "BAD_REQUEST"]
      [] kind = "TtsError" -> [status |-> 500, code |-> "TTS_ERROR"]
      [] kind = "IoError" -> [status |-> 500, code |-> "IO_ERROR"]
      [] kind = "DslError" -> [status |-> 400, code |-> "DSL_ERROR"]
      [] kind = "JsonError" -> [status |-> 500, code |-> "JSON_ERROR"]

\* The voices directory holds, for each voice id, any of the file states.
VoiceStart ==
    /\ CacheInit
    /\ DslIdle
    /\ TtsIdle
    /\ req = <<>>
    /\ resp = <<>>
    /\ disk \in {<<d>> : d \in [Voices -> FileStates]}
    /\ loaded = <<>>
    /\ vid = <<>>
    /\ vname = <<>>

\* Voice::load(voices_dir, v) is called and returns.
LoadVoice(v) ==
    /\ loaded = <<>>
    /\ vid' = v
    /\ loaded' = VoiceLoad(disk[1][v], v)
    /\ UNCHANGED <<req, resp, disk, vname>>

\* The caller returns the error of the load with `?`; it becomes the response.
LoadFailed ==
    /\ loaded # <<>>
    /\ loaded[1] = "Err"
    /\ resp = <<>>
    /\ resp' = <<"Err", IntoResponse(loaded[2])>>
    /\ UNCHANGED <<req, disk, loaded, vid, vname>>

VoiceNext ==
    \/ \E v \in Voices : LoadVoice(v) /\ UNCHANGED <<cacheVars, dslVars, ttsVars>>
    \/ LoadFailed /\ UNCHANGED <<cacheVars, dslVars, ttsVars>>

VoiceSpec == VoiceStart /\ [][VoiceNext]_vars

\* the files of the voice that was loaded
Files == disk[1][vid]

Inserts(p) == pc[p] = "insert" /\ pc'[p] = "done"

\* no call for voice v is between its miss and its return
Quiet(v) == \A q \in Procs : arg[q] = v => ~OnMissPath(q)

\* C23: when several misses for one voice each construct an engine, every
\* insert replaces the entry of that voice alone by the writer's own engine
\* (the map holds one entry for the voice, the last writer's); each racing
\* caller returns the engine it constructed itself; once no miss for the
\* voice is in progress its entry stays what the last writer left, and every
\* call that finds it returns that engine.
C23_LastWriterWins ==
    [][/\ \A p \in Procs : Inserts(p) =>
             /\ engines'[arg[p]] = engine[p][1]
             /\ engine[p][1].id = p
             /\ ret'[p] = <<"Ok", engine[p][1]>>
             /\ DOMAIN engines' = DOMAIN engines \cup {arg[p]}
             /\ \A v \in DOMAIN engines \ {arg[p]} : engines'[v] = engines[v]
       /\ (\A p \in Procs : ~Inserts(p)) => engines' = engines
       /\ \A v \in DOMAIN engines : Quiet(v) =>
             /\ Quiet(v)'
             /\ engines'[v] = engines[v]
             /\ \A q \in Procs :
                   arg'[q] = v /\ pc[q] # "done" /\ pc'[q] = "done" =>
                       ret'[q] = <<"Ok", engines[v]>>]_vars

\* Two racing misses for a voice returned their own engines, the map holds one
\* of them, and a call that started after both had finished returned the
\* engine of the map.
C23_Witness ==
    \E p, q, r \in Procs :
        /\ Finished(p) /\ Finished(q) /\ Finished(r)
        /\ p # q /\ arg[p] = arg[q] /\ arg[r] = arg[p] /\ raced[arg[p]]
        /\ engine[p] # <<>> /\ engine[q] # <<>>
        /\ ret[p] = <<"Ok", engine[p][1]>> /\ ret[q] = <<"Ok", engine[q][1]>>
        /\ engine[p][1] # engine[q][1]
        /\ engines[arg[p]] = engine[q][1]
        /\ engine[r] = <<>> /\ atStart[r] = <<engine[q][1]>>
        /\ ret[r] = <<"Ok", engines[arg[p]]>>

\* C25: a get_engine call that fails (the load or the construction returned
\* an error) has changed nothing in the map: the failing step leaves the map
\* as it is, no entry is the work of a failed call, and a call that misses
\* after it starts with the load again (a failure is not cached).
C25_FailureLeavesMap ==
    [][/\ \A p \in Procs : pc[p] # "failed" /\ pc'[p] = "failed" =>
             /\ engines' = engines
             /\ ret'[p][1] = "Err"
             /\ ret'[p][2] \in {"VoiceNotFound", "JsonError", "TtsError"}
       /\ \A p \in Procs : pc'[p] = "failed" =>
             /\ engine'[p] = <<>>
             /\ \A v \in DOMAIN engines' : engines'[v].id # p
       /\ \A p \in Procs : pc[p] = "lookup" /\ pc'[p] # "lookup" =>
             (pc'[p] = "load" <=> arg[p] \notin DOMAIN engines)
       /\ \A p \in Procs : pc'[p] = "load" => voice'[p] = <<>> /\ engine'[p] = <<>>]_vars

\* A call for a voice failed; a call for the same voice that started with the
\* map still empty of it has loaded, constructed and cached an engine.
C25_Witness ==
    \E p, q \in Procs :
        /\ pc[p] = "failed" /\ Finished(q) /\ arg[p] = arg[q]
        /\ atStart[q] = <<>> /\ engine[q] # <<>>
        /\ engines[arg[q]] = engine[q][1]

\* ------------------------------------------------------------------------
\* tts/mod.rs: parse_voice_name (NameSpec)
\* ------------------------------------------------------------------------

\* The number of "-"-separated segments of a voice id.
MaxSegments == 3

\* The segments: empty, a language, names (one starting with a char that
\* uppercases to two), a name that is capitalized already.
Segments ==
    {<<>>, <<"e", "n", "_", "G", "B">>, <<"a", "l", "b", "a">>, <<SharpS, "a">>, <<"X">>}
SegmentSeqs == UNION {[1..n -> Segments] : n \in 1..MaxSegments}

\* The ids: the file stems list_voices can find (never empty).
VoiceIds == {Join(segs, <<"-">>) : segs \in SegmentSeqs} \ {<<>>}

RECURSIVE SplitOn(_, _, _, _)
\* str::split(c): the pieces between the occurrences of c, empty ones included
SplitOn(s, c, i, piece) ==
    IF i > Len(s) THEN <<piece>>
    ELSE IF s[i] = c THEN <<piece>> \o SplitOn(s, c, i + 1, <<>>)
    ELSE SplitOn(s, c, i + 1, Append(piece, s[i]))

\* Mutant of ParseVoiceName: the first segment is taken for the name.
ParseVoiceNameFirstSegment(id) ==
    LET parts == SplitOn(id, "-", 1, <<>>) IN
    IF Len(parts) >= 2
    THEN LET name == parts[1] IN
         IF name # <<>> THEN ToUpperChar(Head(name)) \o Tail(name) ELSE id
    ELSE id

\* parse_voice_name(id)
ParseVoiceName(id) ==
    LET parts == SplitOn(id, "-", 1, <<>>) IN
    IF Len(parts) >= 2
    THEN LET name == parts[2] IN
         IF name # <<>> THEN ToUpperChar(Head(name)) \o Tail(name) ELSE id
    ELSE id

\* parse_voice_name is called on the id of a voice file.
NameStart ==
    /\ CacheInit
    /\ DslIdle
    /\ TtsIdle
    /\ req = <<>>
    /\ resp = <<>>
    /\ disk = <<>>
    /\ loaded = <<>>
    /\ vid \in VoiceIds
    /\ vname = <<>>

NameVoice ==
    /\ vname = <<>>
    /\ vname' = <<ParseVoiceName(vid)>>
    /\ UNCHANGED <<req, resp, disk, loaded, vid>>

NameNext == NameVoice /\ UNCHANGED <<cacheVars, dslVars, ttsVars>>

NameSpec == NameStart /\ [][NameNext]_vars

\* seg with its first char uppercased (the empty segment stays empty)
Capitalized(seg) == IF seg = <<>> THEN <<>> ELSE ToUpperChar(seg[1]) \o Tail(seg)

\* C24 as stated: for every id of at least two segments the name is the
\* second segment with its first char capitalized, and for every id of one
\* segment it is the id unchanged.
C24_SecondSegmentCapitalized ==
    vname # <<>> =>
        \A segs \in SegmentSeqs : Join(segs, <<"-">>) = vid =>
            /\ Len(segs) >= 2 => vname[1] = Capitalized(segs[2])
            /\ Len(segs) = 1 => vname[1] = vid

\* C24 amended: for every id of at least two segments whose second segment is
\* not empty the name is the second segment with its first char uppercased;
\* for every id of one segment, and for every id whose second segment is
\* empty, it is the id unchanged.
C24_SecondSegmentOrId ==
    vname # <<>> =>
        \A segs \in SegmentSeqs : Join(segs, <<"-">>) = vid =>
            /\ Len(segs) >= 2 /\ segs[2] # <<>> => vname[1] = Capitalized(segs[2])
            /\ Len(segs) >= 2 /\ segs[2] = <<>> => vname[1] = vid
            /\ Len(segs) = 1 => vname[1] = vid

\* "en_GB-alba-X" was named "Alba".
C24_Witness ==
    /\ vid = <<"e", "n", "_", "G", "B", "-", "a", "l", "b", "a", "-", "X">>
    /\ vname = <<<<"A", "l", "b", "a">>>>

\* ------------------------------------------------------------------------
\* parser::parse on texts with every kind of tag (TokSpec)
\* ------------------------------------------------------------------------

\* The number of pieces of an input.
MaxTokPieces == 3

\* The pieces: those of Pieces, timed pauses (one with leading zeros), and
\* the parts of a timed pause on their own.
TokPieces ==
    Pieces \cup {PauseColon \o <<"5", "0", "0", "]">>,
                 PauseColon \o <<"0", "0", "7", "]">>,
                 PauseColon, <<"5">>, OpenTag("spell")}

TokInputs == {Flatten(body) : body \in UNION {[1..n -> TokPieces] : n \in 0..MaxTokPieces}}

\* parse is called on an input text.
TokStart ==
    /\ CacheInit
    /\ ApiIdle
    /\ TtsIdle
    /\ dpc = "input"
    /\ input \in TokInputs
    /\ tokens = <<>>
    /\ tix = 1
    /\ state = DefaultState
    /\ output = <<>>

TokSpec == TokStart /\ [][PauseNext]_vars

\* The text of the tag a directive token stands for, the digits of a timed
\* pause written "#"; a Text token stands for itself.
TagText(t) ==
    CASE t.type = "Text" -> t.text
      [] t.type = "Start" -> OpenTag(t.text)
      [] t.type = "End" -> CloseTag(t.text)
      [] t.type = "Pause" /\ t.ms = <<>> -> PauseTag
      [] OTHER -> PauseColon \o <<"#", "]">>

RECURSIVE HashDigits(_, _)
\* s[i..] with the digits of every recognized timed pause written "#"
HashDigits(s, i) ==
    IF i > Len(s) THEN <<>>
    ELSE IF MatchLen(s, i) > 0 /\ StartsWithAt(s, i, PauseColon)
    THEN PauseColon \o <<"#", "]">> \o HashDigits(s, i + MatchLen(s, i))
    ELSE IF MatchLen(s, i) > 0
    THEN SubSeq(s, i, i + MatchLen(s, i) - 1) \o HashDigits(s, i + MatchLen(s, i))
    ELSE <<s[i]>> \o HashDigits(s, i + 1)

\* C27: replacing each directive token by its tag and concatenating gives the
\* input back, up to the digits of the timed pauses (so the directive tokens
\* are in the order of the tags); the Text tokens are non-empty, hold no
\* recognized tag and are never adjacent (they are the maximal substrings
\* before, between and after the tags).
C27_TokensCoverInput ==
    dpc # "input" =>
        /\ Flatten([i \in DOMAIN tokens |-> TagText(tokens[i])]) = HashDigits(input, 1)
        /\ \A i \in DOMAIN tokens :
              tokens[i].type = "Text" =>
                  tokens[i].text # <<>> /\ ~HasDirective(tokens[i].text)
        /\ \A i \in 1..(Len(tokens) - 1) :
              ~(tokens[i].type = "Text" /\ tokens[i + 1].type = "Text")

\* "a B[pause:007][x]" was tokenized into Text, Pause(7), Text.
C27_Witness ==
    /\ dpc # "input"
    /\ input = <<"a", " ", "B">> \o PauseColon \o <<"0", "0", "7", "]", "[", "x", "]">>
    /\ tokens = <<TextToken(<<"a", " ", "B">>), PauseToken(<<U32(0, 7)>>),
                  TextToken(<<"[", "x", "]">>)>>

Init == CacheInit /\ DslIdle /\ TtsIdle /\ ApiIdle

Next ==
    \/ \E p \in Procs, v \in Voices : Call(p, v) /\ UNCHANGED <<dslVars, ttsVars, apiVars>>
    \/ \E p \in Procs : AcquireRead(p) /\ UNCHANGED <<dslVars, ttsVars, apiVars>>
    \/ \E p \in Procs : Lookup(p) /\ UNCHANGED <<dslVars, ttsVars, apiVars>>
    \/ \E p \in Procs, files \in FileStates : Load(p, files) /\ UNCHANGED <<dslVars, ttsVars, apiVars>>
    \/ \E p \in Procs, loads \in BOOLEAN : Construct(p, loads) /\ UNCHANGED <<dslVars, ttsVars, apiVars>>
    \/ \E p \in Procs : AcquireWrite(p) /\ UNCHANGED <<dslVars, ttsVars, apiVars>>
    \/ \E p \in Procs : Insert(p) /\ UNCHANGED <<dslVars, ttsVars, apiVars>>

Spec == Init /\ [][Next]_vars

\* ------------------------------------------------------------------------
\* get_engine under fair scheduling (FairSpec)
\* ------------------------------------------------------------------------

\* A step of thread p inside get_engine.
Step(p) ==
    \/ AcquireRead(p)
    \/ Lookup(p)
    \/ \E files \in FileStates : Load(p, files)
    \/ \E loads \in BOOLEAN : Construct(p, loads)
    \/ AcquireWrite(p)
    \/ Insert(p)

\* The number of threads that call get_engine in the fair runs.
NLive == 2
LiveProcs == {p \in Procs : p <= NLive}

FairNext ==
    \/ \E p \in LiveProcs, v \in Voices :
          Call(p, v) /\ UNCHANGED <<dslVars, ttsVars, apiVars>>
    \/ \E p \in LiveProcs : Step(p) /\ UNCHANGED <<dslVars, ttsVars, apiVars>>

\* Every thread inside get_engine keeps running (the loads and constructions
\* terminate), and a thread waiting for the lock gets it when it is free.
FairSpec ==
    /\ Init
    /\ [][FairNext]_vars
    /\ \A p \in LiveProcs : WF_vars(Step(p) /\ UNCHANGED <<dslVars, ttsVars, apiVars>>)

\* C26: a thread waiting for the write lock holds no read guard, and under
\* fair scheduling every get_engine call returns (Ok or Err): no call waits
\* for ever.
C26_EveryCallReturns ==
    /\ [](\A p \in Procs : pc[p] \in {"acq_write", "insert"} => p \notin readers)
    /\ \A p \in Procs : (pc[p] # "idle") ~> (pc[p] \in {"done", "failed"})

\* A thread waits for the write lock while another holds the read guard.
C26_Witness ==
    \E p, q \in Procs :
        /\ pc[p] = "acq_write" /\ ~ENABLED AcquireWrite(p)
        /\ pc[q] = "lookup" /\ q \in readers /\ arg[q] = arg[p]

====
